---- MODULE Spec2Model ----
(***************************************************************************)
(* real-favicon: the generation-and-persistence pipeline of                *)
(* src/core/generate.ts (generateFavicons) and its two adapters            *)
(* (generateFaviconsNode, realFavicon.buildStart).                         *)
(*                                                                         *)
(* A call of generateFavicons is an async function: it runs synchronously  *)
(* up to its first await and then one continuation per awaited operation.  *)
(* Each action below is one such synchronous stretch together with the     *)
(* filesystem operation or collaborator call whose completion starts it.   *)
(* Every call keeps the trace of the effects it has performed (filesystem  *)
(* operations, collaborator calls, hook invocations), in order.            *)
(*                                                                         *)
(* Paths are sequences of segments; an absolute path starts with "/".      *)
(* The filesystem is keyed by absolute paths: a relative path handed to    *)
(* the filesystem is resolved against the working directory.  Directory    *)
(* creation and the HTML write are taken to succeed; image normalization,  *)
(* file-set generation, each favicon file write and the favicon.ico copy   *)
(* may fail.                                                               *)
(***************************************************************************)
EXTENDS Naturals, Sequences, FiniteSets, TLC

VARIABLES req, dirs, files, calls

vars == <<req, dirs, files, calls>>

(* ------------------------------ bounds --------------------------------- *)

\* number of invocations of generateFavicons in one behaviour
MaxCalls == 2

\* number of invocations of an adapter in one behaviour
MaxAdapterCalls == 1

(* ------------------------- values and paths ---------------------------- *)

\* the JavaScript value undefined, where a string (path) is expected
Undefined == <<"<undefined>">>

\* truthiness of an optional string: undefined and "" are falsy
Truthy(s) == s # Undefined /\ s # <<>>

\* process.cwd()
cwd == <<"/", "cwd">>

IsAbsolute(p) == Len(p) > 0 /\ Head(p) = "/"

NotDot(s) == s # "."

\* path.normalize, as far as "." segments go
Normalize(p) == SelectSeq(p, NotDot)

\* path.resolve(base, p) for a string p: "" resolves to base
Resolve(base, p) ==
  IF p = <<>> THEN base
  ELSE IF IsAbsolute(p) THEN Normalize(p)
  ELSE Normalize(base \o p)

\* path.join(dir, name)
Join(dir, name) == Normalize(dir \o <<name>>)

\* path.dirname(p)
Dirname(p) ==
  IF Len(p) <= 1
    THEN (IF IsAbsolute(p) THEN p ELSE <<".">>)
    ELSE SubSeq(p, 1, Len(p) - 1)

\* the filesystem resolves a relative path against the working directory
FsKey(p) == Resolve(cwd, p)

(* ------------------------------ requests ------------------------------- *)

HookNames == {"onStart", "onSkipFiles", "onFileWritten", "onHtmlWritten", "onIcoCopied"}

\* a hook slot is absent, a callback that returns, or a callback that throws
NoHooks == [h \in HookNames |-> "absent"]

OkHooks == [h \in HookNames |-> "ok"]

ThrowingHook(t) == [h \in HookNames |-> IF h = t THEN "throws" ELSE "ok"]

HookSets == {NoHooks, OkHooks} \cup {ThrowingHook(t) : t \in HookNames}

Sources == {Undefined, <<>>, <<"logo.png">>}

OutputDirs == {Undefined, <<>>, <<"out">>}

HtmlOutputs == {Undefined, <<>>, <<"gen", "favicons.html">>}

RootDirs == {Undefined, <<>>, <<"public">>}

\* RealFaviconOptions & { htmlOutput, hooks }; path stands for the FaviconSettings payload
Options ==
  [source : Sources, outputDir : OutputDirs, htmlOutput : HtmlOutputs,
   skipIfExists : {"undefined", "true", "false"}, copyIcoToRoot : BOOLEAN,
   rootDir : RootDirs, hooks : HookSets, path : {"/favicons/"}]

\* a faulty variant of SkipIfExists: the flag is ignored and the probe always made
SkipIfExistsAlways(o) == TRUE

\* const { ..., skipIfExists = true, ... } = options
SkipIfExists(o) == o.skipIfExists # "false"

\* const { source, outputDir, ..., hooks, ...faviconSettings } = options
FaviconSettings(o) == [path |-> o.path]

(* ---------------------------- collaborators ---------------------------- *)

FileNames == {"favicon.ico", "site.webmanifest"}

\* the shape of a generated file's content: Blob, string or byte buffer
FileShape(name) == IF name = "favicon.ico" THEN "blob" ELSE "string"

\* loadAndConvertToSvg(source), when it succeeds
LoadAndConvertToSvg(source) == source

\* generateFaviconFiles(masterIcon, faviconSettings, imageAdapter), when it succeeds
GenerateFaviconFiles(icon, settings) ==
  [n \in FileNames |->
     [shape |-> FileShape(n), data |-> [kind |-> n, icon |-> icon, path |-> settings.path]]]

\* Buffer.from(...) of the three content shapes: the bytes, without the shape
ToBuffer(content) == content.data

\* generateFaviconHtml(faviconSettings).markups.join('')
GenerateFaviconHtml(settings) == [kind |-> "markup", icon |-> <<>>, path |-> settings.path]

\* content that was on disk before any call
Stale == [kind |-> "stale", icon |-> <<>>, path |-> ""]

(* ----------------------------- filesystem ------------------------------ *)

\* fs.writeFile / fs.copyFile: the file at path p now holds content c
Write(fs, p, c) == {f \in fs : f.p # p} \cup {[p |-> p, c |-> c]}

Exists(p) == p \in dirs \/ \E f \in files : f.p = p

HasFile(fs, p, c) == [p |-> p, c |-> c] \in fs

(* ------------------------------- calls --------------------------------- *)

NoContent == [kind |-> "", icon |-> <<>>, path |-> ""]

Ev(k, a) == [k |-> k, a |-> a]

\* a call of generateFavicons(o) that has not run yet
NewCall(via, o) ==
  [via |-> via, opts |-> o, pc |-> "start", status |-> "pending", error |-> "",
   outputDirExists |-> FALSE, filesDone |-> FALSE, icon |-> <<>>, html |-> NoContent,
   tasks |-> [n \in FileNames |-> "none"], trace |-> <<>>, settledAt |-> 0]

Log(c, k, a) == [c EXCEPT !.trace = Append(@, Ev(k, a))]

\* hooks?.h?.(a): an absent slot is a no-op
Fire(c, h, a) == IF c.opts.hooks[h] = "absent" THEN c ELSE Log(c, h, a)

Throws(c, h) == c.opts.hooks[h] = "throws"

\* a faulty variant of Reject: the error is recorded but the steps of the call go on
RejectKeepsRunning(c, e) ==
  IF c.status # "pending" THEN c
  ELSE [c EXCEPT !.status = "rejected", !.error = e, !.settledAt = Len(c.trace)]

\* the promise of the call settles once; later failures of its tasks are dropped
Reject(c, e) ==
  IF c.status # "pending" THEN c
  ELSE [c EXCEPT !.status = "rejected", !.error = e, !.pc = "done",
                 !.settledAt = Len(c.trace)]

Fulfil(c) ==
  [c EXCEPT !.status = "resolved", !.pc = "done", !.settledAt = Len(c.trace)]

\* a faulty variant of HtmlPhase: skipping the files phase skips the HTML phase too
HtmlPhaseSkippedWithFiles(c) ==
  LET settings == FaviconSettings(c.opts)
      c1 == [Log(c, "generateFaviconHtml", <<settings.path>>)
               EXCEPT !.html = GenerateFaviconHtml(settings)]
  IN IF c.outputDirExists THEN Fulfil(c)
     ELSE IF Truthy(c.opts.htmlOutput) THEN [c1 EXCEPT !.pc = "htmlMkdir"] ELSE Fulfil(c1)

\* generate.ts 204-218, up to the first await
HtmlPhase(c) ==
  LET settings == FaviconSettings(c.opts)
      c1 == [Log(c, "generateFaviconHtml", <<settings.path>>)
               EXCEPT !.html = GenerateFaviconHtml(settings)]
  IN IF Truthy(c.opts.htmlOutput) THEN [c1 EXCEPT !.pc = "htmlMkdir"] ELSE Fulfil(c1)

\* a faulty variant of Start: onStart fires before the required options are validated
StartHookFirst(c) ==
  LET c1 == Fire(c, "onStart", <<>>)
  IN IF Throws(c, "onStart") THEN Reject(c1, "hook onStart")
     ELSE IF ~Truthy(c.opts.source) THEN Reject(c1, "source required")
     ELSE IF ~Truthy(c.opts.outputDir) THEN Reject(c1, "outputDir required")
     ELSE IF SkipIfExists(c.opts) THEN [c1 EXCEPT !.pc = "access"]
     ELSE [c1 EXCEPT !.pc = "mkdir"]

\* a faulty variant of Start: rootDir is validated with the other required options
StartChecksRootDir(c) ==
  IF ~Truthy(c.opts.source) THEN Reject(c, "source required")
  ELSE IF ~Truthy(c.opts.outputDir) THEN Reject(c, "outputDir required")
  ELSE IF c.opts.copyIcoToRoot /\ ~Truthy(c.opts.rootDir) THEN Reject(c, "rootDir required")
  ELSE LET c1 == Fire(c, "onStart", <<>>)
       IN IF Throws(c, "onStart") THEN Reject(c1, "hook onStart")
          ELSE IF SkipIfExists(c.opts) THEN [c1 EXCEPT !.pc = "access"]
          ELSE [c1 EXCEPT !.pc = "mkdir"]

\* generate.ts 66-107, up to the first await
Start(c) ==
  IF ~Truthy(c.opts.source) THEN Reject(c, "source required")
  ELSE IF ~Truthy(c.opts.outputDir) THEN Reject(c, "outputDir required")
  ELSE LET c1 == Fire(c, "onStart", <<>>)
       IN IF Throws(c, "onStart") THEN Reject(c1, "hook onStart")
          ELSE IF SkipIfExists(c.opts) THEN [c1 EXCEPT !.pc = "access"]
          ELSE [c1 EXCEPT !.pc = "mkdir"]

\* a faulty variant of AfterAccess: onSkipFiles is called outside the try block, so its
\* exception propagates
AfterAccessUncaught(c, exists) ==
  LET c1 == Log(c, IF exists THEN "access" ELSE "access ENOENT", c.opts.outputDir)
      c2 == IF exists
              THEN Fire([c1 EXCEPT !.outputDirExists = TRUE], "onSkipFiles", c.opts.outputDir)
              ELSE c1
  IN IF exists /\ Throws(c, "onSkipFiles") THEN Reject(c2, "hook onSkipFiles")
     ELSE IF c2.outputDirExists THEN HtmlPhase(c2)
     ELSE [c2 EXCEPT !.pc = "mkdir"]

\* generate.ts 100-109: the continuation of fs.access(outputDir); a throw of
\* onSkipFiles happens inside the try block and is caught
AfterAccess(c, exists) ==
  LET c1 == Log(c, IF exists THEN "access" ELSE "access ENOENT", c.opts.outputDir)
      c2 == IF exists
              THEN LET c3 == Fire([c1 EXCEPT !.outputDirExists = TRUE],
                                  "onSkipFiles", c.opts.outputDir)
                   IN IF Throws(c, "onSkipFiles")
                        THEN [c3 EXCEPT !.outputDirExists = FALSE] ELSE c3
              ELSE c1
  IN IF c2.outputDirExists THEN HtmlPhase(c2) ELSE [c2 EXCEPT !.pc = "mkdir"]

\* a faulty variant of StartWrites: only the Blob entries of the file set are written
StartWritesBlobsOnly(c) ==
  [c EXCEPT !.pc = "writes",
            !.tasks = [n \in FileNames |->
                         IF FileShape(n) = "blob" THEN "convert" ELSE "done"]]

\* generate.ts 152-162: Promise.all starts one task per entry of the file set;
\* a Blob entry awaits arrayBuffer() before its write is issued
StartWrites(c) ==
  [c EXCEPT !.pc = "writes",
            !.tasks = [n \in FileNames |->
                         IF FileShape(n) = "blob" THEN "convert" ELSE "writing"]]

\* a faulty variant of AfterWriteFile: onFileWritten is fired when the write is issued,
\* before it has completed
AfterWriteFileHookFirst(c, n) ==
  LET targetPath == Join(c.opts.outputDir, n)
      c1 == Log(Fire(c, "onFileWritten", targetPath), "writeFile", targetPath)
  IN IF Throws(c, "onFileWritten")
       THEN Reject([c1 EXCEPT !.tasks[n] = "failed"], "hook onFileWritten")
       ELSE [c1 EXCEPT !.tasks[n] = "done"]

\* a faulty variant of AfterWriteFile: the call goes on as soon as one write of the
\* batch has completed
AfterWriteFileRace(c, n) ==
  LET targetPath == Join(c.opts.outputDir, n)
      c1 == Fire(Log(c, "writeFile", targetPath), "onFileWritten", targetPath)
  IN IF Throws(c, "onFileWritten")
       THEN Reject([c1 EXCEPT !.tasks[n] = "failed"], "hook onFileWritten")
       ELSE IF c.pc = "writes"
              THEN HtmlPhase([c1 EXCEPT !.tasks[n] = "done", !.filesDone = TRUE])
              ELSE [c1 EXCEPT !.tasks[n] = "done"]

\* generate.ts 163-165: the continuation of fs.writeFile(targetPath, data)
AfterWriteFile(c, n) ==
  LET targetPath == Join(c.opts.outputDir, n)
      c1 == Fire(Log(c, "writeFile", targetPath), "onFileWritten", targetPath)
  IN IF Throws(c, "onFileWritten")
       THEN Reject([c1 EXCEPT !.tasks[n] = "failed"], "hook onFileWritten")
       ELSE [c1 EXCEPT !.tasks[n] = "done"]

\* a faulty variant of AfterWrites: the copy is issued without the rootDir check
AfterWritesNoRootDirCheck(c) ==
  IF c.opts.copyIcoToRoot THEN [c EXCEPT !.pc = "copy"]
  ELSE HtmlPhase([c EXCEPT !.filesDone = TRUE])

\* generate.ts 166-187: the continuation of Promise.all
AfterWrites(c) ==
  IF c.opts.copyIcoToRoot
    THEN IF ~Truthy(c.opts.rootDir) THEN Reject(c, "rootDir required")
         ELSE [c EXCEPT !.pc = "copy"]
    ELSE HtmlPhase([c EXCEPT !.filesDone = TRUE])

\* generate.ts 185-187: the continuation of fs.copyFile(sourceIco, targetIco)
AfterCopyFile(c) ==
  LET targetIco == Join(c.opts.rootDir, "favicon.ico")
      c1 == Fire(Log(c, "copyFile", targetIco), "onIcoCopied", targetIco)
  IN IF Throws(c, "onIcoCopied") THEN Reject(c1, "hook onIcoCopied")
     ELSE HtmlPhase([c1 EXCEPT !.filesDone = TRUE])

\* generate.ts 216-218: the continuation of fs.writeFile(htmlOutput, html)
AfterHtmlWrite(c) ==
  LET c1 == Fire(Log(c, "writeFile", c.opts.htmlOutput), "onHtmlWritten", c.opts.htmlOutput)
  IN IF Throws(c, "onHtmlWritten") THEN Reject(c1, "hook onHtmlWritten") ELSE Fulfil(c1)

Settled(c) == c.status # "pending"

(* ------------------------------ actions -------------------------------- *)

OutDir == FsKey(<<"out">>)

Init ==
  /\ req \in Options
  /\ calls = <<>>
  /\ \/ /\ dirs = {cwd, FsKey(<<"public">>)}
        /\ files = {}
     \/ /\ dirs = {cwd, FsKey(<<"public">>), OutDir}
        /\ files = {[p |-> Join(OutDir, "favicon.ico"), c |-> Stale]}

\* the caller invokes generateFavicons(req) once the previous call has settled
GenerateFavicons ==
  /\ Len(calls) < MaxCalls
  /\ \A i \in 1..Len(calls) : Settled(calls[i])
  /\ calls' = Append(calls, Start(NewCall("core", req)))
  /\ UNCHANGED <<req, dirs, files>>

\* fs.access(outputDir) completes
Access(i) ==
  /\ calls[i].pc = "access"
  /\ calls' = [calls EXCEPT ![i] = AfterAccess(@, Exists(FsKey(@.opts.outputDir)))]
  /\ UNCHANGED <<req, dirs, files>>

\* fs.mkdir(outputDir, { recursive: true }) completes
Mkdir(i) ==
  /\ calls[i].pc = "mkdir"
  /\ dirs' = dirs \cup {FsKey(calls[i].opts.outputDir)}
  /\ calls' = [calls EXCEPT ![i] = [Log(@, "mkdir", @.opts.outputDir) EXCEPT !.pc = "normalize"]]
  /\ UNCHANGED <<req, files>>

\* loadAndConvertToSvg(source) resolves
LoadIcon(i) ==
  /\ calls[i].pc = "normalize"
  /\ LET c == calls[i]
     IN calls' = [calls EXCEPT ![i] =
                    [Log(c, "loadAndConvertToSvg", c.opts.source)
                       EXCEPT !.pc = "imageAdapter",
                              !.icon = LoadAndConvertToSvg(c.opts.source)]]
  /\ UNCHANGED <<req, dirs, files>>

\* loadAndConvertToSvg(source) rejects
LoadIconFails(i) ==
  /\ calls[i].pc = "normalize"
  /\ calls' = [calls EXCEPT ![i] = Reject(@, "could not load source image")]
  /\ UNCHANGED <<req, dirs, files>>

\* getNodeImageAdapter() resolves
ImageAdapter(i) ==
  /\ calls[i].pc = "imageAdapter"
  /\ calls' = [calls EXCEPT ![i] = [Log(@, "getNodeImageAdapter", <<>>) EXCEPT !.pc = "generate"]]
  /\ UNCHANGED <<req, dirs, files>>

\* generateFaviconFiles(...) resolves and the writes of the batch are started
Generate(i) ==
  /\ calls[i].pc = "generate"
  /\ calls' = [calls EXCEPT ![i] =
                 StartWrites(Log(@, "generateFaviconFiles", <<FaviconSettings(@.opts).path>>))]
  /\ UNCHANGED <<req, dirs, files>>

\* generateFaviconFiles(...) rejects
GenerateFails(i) ==
  /\ calls[i].pc = "generate"
  /\ calls' = [calls EXCEPT ![i] = Reject(@, "file generation failed")]
  /\ UNCHANGED <<req, dirs, files>>

\* fileContent.arrayBuffer() resolves and fs.writeFile is issued
Convert(i, n) ==
  /\ calls[i].tasks[n] = "convert"
  /\ calls' = [calls EXCEPT ![i].tasks[n] = "writing"]
  /\ UNCHANGED <<req, dirs, files>>

\* fs.writeFile(targetPath, data) completes; the task goes on, whether or not
\* the call has settled meanwhile
WriteFile(i, n) ==
  /\ calls[i].tasks[n] = "writing"
  /\ LET c == calls[i]
         fileSet == GenerateFaviconFiles(c.icon, FaviconSettings(c.opts))
     IN files' = Write(files, FsKey(Join(c.opts.outputDir, n)), ToBuffer(fileSet[n]))
  /\ calls' = [calls EXCEPT ![i] = AfterWriteFile(@, n)]
  /\ UNCHANGED <<req, dirs>>

\* fs.writeFile(targetPath, data) fails: the task rejects, and so does Promise.all
WriteFileFails(i, n) ==
  /\ calls[i].tasks[n] = "writing"
  /\ calls' = [calls EXCEPT ![i] = Reject([@ EXCEPT !.tasks[n] = "failed"], "write failed")]
  /\ UNCHANGED <<req, dirs, files>>

\* every task of the batch has fulfilled: Promise.all resolves
WritesDone(i) ==
  /\ calls[i].pc = "writes"
  /\ \A n \in FileNames : calls[i].tasks[n] = "done"
  /\ calls' = [calls EXCEPT ![i] = AfterWrites(@)]
  /\ UNCHANGED <<req, dirs, files>>

\* fs.copyFile(sourceIco, targetIco) completes
CopyFile(i) ==
  /\ calls[i].pc = "copy"
  /\ LET c == calls[i]
         sourceIco == FsKey(Join(c.opts.outputDir, "favicon.ico"))
         targetIco == FsKey(Join(c.opts.rootDir, "favicon.ico"))
     IN /\ FsKey(c.opts.rootDir) \in dirs
        /\ \E f \in files : f.p = sourceIco /\ files' = Write(files, targetIco, f.c)
  /\ calls' = [calls EXCEPT ![i] = AfterCopyFile(@)]
  /\ UNCHANGED <<req, dirs>>

\* fs.copyFile(sourceIco, targetIco) fails
CopyFileFails(i) ==
  /\ calls[i].pc = "copy"
  /\ calls' = [calls EXCEPT ![i] = Reject(@, "copy failed")]
  /\ UNCHANGED <<req, dirs, files>>

\* fs.mkdir(path.dirname(htmlOutput), { recursive: true }) completes
HtmlMkdir(i) ==
  /\ calls[i].pc = "htmlMkdir"
  /\ dirs' = dirs \cup {FsKey(Dirname(calls[i].opts.htmlOutput))}
  /\ calls' = [calls EXCEPT ![i] =
                 [Log(@, "mkdir", Dirname(@.opts.htmlOutput)) EXCEPT !.pc = "htmlWrite"]]
  /\ UNCHANGED <<req, files>>

\* fs.writeFile(htmlOutput, html, 'utf-8') completes
HtmlWrite(i) ==
  /\ calls[i].pc = "htmlWrite"
  /\ files' = Write(files, FsKey(calls[i].opts.htmlOutput), calls[i].html)
  /\ calls' = [calls EXCEPT ![i] = AfterHtmlWrite(@)]
  /\ UNCHANGED <<req, dirs>>

Next ==
  \/ GenerateFavicons
  \/ \E i \in 1..Len(calls) : Access(i)
  \/ \E i \in 1..Len(calls) : Mkdir(i)
  \/ \E i \in 1..Len(calls) : LoadIcon(i)
  \/ \E i \in 1..Len(calls) : LoadIconFails(i)
  \/ \E i \in 1..Len(calls) : ImageAdapter(i)
  \/ \E i \in 1..Len(calls) : Generate(i)
  \/ \E i \in 1..Len(calls) : GenerateFails(i)
  \/ \E i \in 1..Len(calls), n \in FileNames : Convert(i, n)
  \/ \E i \in 1..Len(calls), n \in FileNames : WriteFile(i, n)
  \/ \E i \in 1..Len(calls), n \in FileNames : WriteFileFails(i, n)
  \/ \E i \in 1..Len(calls) : WritesDone(i)
  \/ \E i \in 1..Len(calls) : CopyFile(i)
  \/ \E i \in 1..Len(calls) : CopyFileFails(i)
  \/ \E i \in 1..Len(calls) : HtmlMkdir(i)
  \/ \E i \in 1..Len(calls) : HtmlWrite(i)

Spec == Init /\ [][Next]_vars

(* ------------------------------ adapters ------------------------------- *)

\* path.resolve(base, p) throws a TypeError when p is not a string
ResolveThrows(o) == o.source = Undefined \/ o.outputDir = Undefined

\* a faulty variant of NodeOptions: rootDir and htmlOutput are resolved whenever they
\* are strings, the empty string included
NodeOptionsResolveAll(o) ==
  [o EXCEPT !.source = Resolve(cwd, o.source),
            !.outputDir = Resolve(cwd, o.outputDir),
            !.rootDir = IF o.rootDir # Undefined THEN Resolve(cwd, o.rootDir) ELSE Undefined,
            !.htmlOutput = IF o.htmlOutput # Undefined THEN Resolve(cwd, o.htmlOutput)
                           ELSE Undefined]

\* node.ts 63-83: the options generateFaviconsNode hands to generateFavicons
NodeOptions(o) ==
  [o EXCEPT !.source = Resolve(cwd, o.source),
            !.outputDir = Resolve(cwd, o.outputDir),
            !.rootDir = IF Truthy(o.rootDir) THEN Resolve(cwd, o.rootDir) ELSE Undefined,
            !.htmlOutput = IF Truthy(o.htmlOutput) THEN Resolve(cwd, o.htmlOutput)
                           ELSE Undefined]

\* the Vite adapter, buildStart: root is process.cwd()
ViteOptions(o) ==
  LET root == cwd
  IN [o EXCEPT !.source = Resolve(root, o.source),
               !.outputDir = Resolve(root, o.outputDir),
               !.rootDir = IF Truthy(o.rootDir) THEN Resolve(root, o.rootDir) ELSE Undefined,
               !.htmlOutput = IF Truthy(o.htmlOutput) THEN Resolve(root, o.htmlOutput)
                              ELSE Undefined]

\* the call an adapter makes: path.resolve throws before generateFavicons is
\* reached, or generateFavicons runs on the adapter's options
AdapterCall(via, o, resolved) ==
  IF ResolveThrows(o) THEN Reject(NewCall(via, o), "TypeError")
  ELSE Start(NewCall(via, resolved))

\* the hook sets of the adapter runs
AdapterHookSets == {NoHooks, OkHooks}

InitAdapters ==
  /\ Init
  /\ req.hooks \in AdapterHookSets

\* the caller invokes generateFaviconsNode(req)
GenerateFaviconsNode ==
  /\ Len(calls) < MaxAdapterCalls
  /\ \A i \in 1..Len(calls) : Settled(calls[i])
  /\ calls' = Append(calls, AdapterCall("node", req, NodeOptions(req)))
  /\ UNCHANGED <<req, dirs, files>>

\* the build tool runs buildStart of the plugin realFavicon(req)
BuildStart ==
  /\ Len(calls) < MaxAdapterCalls
  /\ \A i \in 1..Len(calls) : Settled(calls[i])
  /\ calls' = Append(calls, AdapterCall("vite", req, ViteOptions(req)))
  /\ UNCHANGED <<req, dirs, files>>

NextAdapters ==
  \/ GenerateFaviconsNode
  \/ BuildStart
  \/ \E i \in 1..Len(calls) : Access(i)
  \/ \E i \in 1..Len(calls) : Mkdir(i)
  \/ \E i \in 1..Len(calls) : LoadIcon(i)
  \/ \E i \in 1..Len(calls) : LoadIconFails(i)
  \/ \E i \in 1..Len(calls) : ImageAdapter(i)
  \/ \E i \in 1..Len(calls) : Generate(i)
  \/ \E i \in 1..Len(calls) : GenerateFails(i)
  \/ \E i \in 1..Len(calls), n \in FileNames : Convert(i, n)
  \/ \E i \in 1..Len(calls), n \in FileNames : WriteFile(i, n)
  \/ \E i \in 1..Len(calls), n \in FileNames : WriteFileFails(i, n)
  \/ \E i \in 1..Len(calls) : WritesDone(i)
  \/ \E i \in 1..Len(calls) : CopyFile(i)
  \/ \E i \in 1..Len(calls) : CopyFileFails(i)
  \/ \E i \in 1..Len(calls) : HtmlMkdir(i)
  \/ \E i \in 1..Len(calls) : HtmlWrite(i)

SpecAdapters == InitAdapters /\ [][NextAdapters]_vars

(* --------------------------- reading a trace --------------------------- *)

CallIds == 1..Len(calls)

\* the positions of the events of kind k with argument a in the trace of c
At(c, k, a) == {j \in 1..Len(c.trace) : c.trace[j] = Ev(k, a)}

\* the positions of the events of kind k
Of(c, k) == {j \in 1..Len(c.trace) : c.trace[j].k = k}

Present(c, h) == c.opts.hooks[h] # "absent"

\* the target path of file n of the file set
Target(c, n) == Join(c.opts.outputDir, n)

\* the call ran (part of) the files phase
FilesPhaseTouched(c) ==
  \/ At(c, "mkdir", c.opts.outputDir) # {}
  \/ Of(c, "loadAndConvertToSvg") # {}
  \/ Of(c, "getNodeImageAdapter") # {}
  \/ Of(c, "generateFaviconFiles") # {}
  \/ \E n \in FileNames : At(c, "writeFile", Target(c, n)) # {}
  \/ Of(c, "onFileWritten") # {}
  \/ Of(c, "copyFile") # {}
  \/ Of(c, "onIcoCopied") # {}
  \/ \E n \in FileNames : c.tasks[n] # "none"

\* what file n of the set holds once call c has written it
Generated(c, n) ==
  ToBuffer(GenerateFaviconFiles(LoadAndConvertToSvg(c.opts.source), FaviconSettings(c.opts))[n])

(* -------------------------------- claims ------------------------------- *)

\* C1: a call whose source or outputDir is missing or empty is rejected with
\* the 'required' error before onStart: it has invoked no hook, performed no
\* filesystem operation and called no collaborator.
C1_RequiredBeforeStart ==
  \A i \in CallIds :
    LET c == calls[i]
    IN (~Truthy(c.opts.source) \/ ~Truthy(c.opts.outputDir)) =>
         /\ c.status = "rejected"
         /\ c.error = (IF ~Truthy(c.opts.source) THEN "source required"
                       ELSE "outputDir required")
         /\ c.trace = <<>>
         /\ \A n \in FileNames : c.tasks[n] = "none"

\* C1 witness: a request with every hook present and an empty outputDir was rejected
C1_Witness ==
  \E i \in CallIds :
    /\ calls[i].opts.hooks = OkHooks
    /\ Truthy(calls[i].opts.source)
    /\ calls[i].opts.outputDir = <<>>
    /\ calls[i].error = "outputDir required"

\* C2 (as claimed): in a call with skipIfExists true or unset whose probe finds
\* outputDir, onSkipFiles fires exactly once with outputDir and the files phase
\* is bypassed altogether.
C2_SkipBypassesFilesPhase ==
  \A i \in CallIds :
    LET c == calls[i]
    IN (c.opts.skipIfExists \in {"true", "undefined"} /\ Of(c, "access") # {}) =>
         /\ Present(c, "onSkipFiles") =>
              /\ Cardinality(Of(c, "onSkipFiles")) = 1
              /\ Cardinality(At(c, "onSkipFiles", c.opts.outputDir)) = 1
         /\ ~FilesPhaseTouched(c)

\* the HTML phase of call c has run to its end
HtmlEmitted(c) ==
  /\ Cardinality(Of(c, "generateFaviconHtml")) = 1
  /\ At(c, "generateFaviconHtml", <<req.path>>) # {}
  /\ IF Truthy(c.opts.htmlOutput)
       THEN Settled(c) =>
              /\ Cardinality(At(c, "writeFile", c.opts.htmlOutput)) = 1
              /\ HasFile(files, FsKey(c.opts.htmlOutput), GenerateFaviconHtml([path |-> req.path]))
              /\ Present(c, "onHtmlWritten") =>
                   /\ Cardinality(Of(c, "onHtmlWritten")) = 1
                   /\ At(c, "onHtmlWritten", c.opts.htmlOutput) # {}
       ELSE /\ c.status = "resolved"
            /\ Of(c, "onHtmlWritten") = {}
            /\ \A j \in Of(c, "writeFile") : \E n \in FileNames : c.trace[j].a = Target(c, n)

C4_NoSkipAlwaysRegenerates ==
  \A i \in CallIds :
    LET c == calls[i]
    IN c.opts.skipIfExists = "false" =>
         /\ Of(c, "access") = {} /\ Of(c, "access ENOENT") = {}
         /\ Of(c, "onSkipFiles") = {}
         /\ ~c.outputDirExists
         /\ (c.filesDone \/ c.status = "resolved" \/ Of(c, "generateFaviconHtml") # {}) =>
              /\ Cardinality(At(c, "mkdir", c.opts.outputDir)) = 1
              /\ Cardinality(Of(c, "loadAndConvertToSvg")) = 1
              /\ Cardinality(Of(c, "generateFaviconFiles")) = 1
              /\ \A n \in FileNames :
                   /\ Cardinality(At(c, "writeFile", Target(c, n))) = 1
                   /\ HasFile(files, FsKey(Target(c, n)), Generated(c, n))

\* C4 witness: the second of two invocations with skipIfExists=false resolved
\* after the first had written the files, and fired onFileWritten for each
C4_Witness ==
  /\ Len(calls) = 2
  /\ calls[2].opts.skipIfExists = "false"
  /\ calls[1].filesDone
  /\ calls[2].status = "resolved"
  /\ Cardinality(Of(calls[2], "onFileWritten")) = Cardinality(FileNames)

\* C5 (as claimed): every call with copyIcoToRoot=true and rootDir unset fails
\* (is rejected), whatever the state of outputDir and the value of skipIfExists,
\* without attempting the copy or firing onIcoCopied.
C5_MissingRootDirAlwaysFails ==
  \A i \in CallIds :
    LET c == calls[i]
    IN (c.opts.copyIcoToRoot /\ ~Truthy(c.opts.rootDir) /\ Settled(c)) =>
         /\ c.status = "rejected"
         /\ Of(c, "copyFile") = {}
         /\ Of(c, "onIcoCopied") = {}

\* C5 (amended): with copyIcoToRoot=true and rootDir unset or empty the copy is
\* never attempted and onIcoCopied never fires; the call is rejected with
\* 'rootDir is required' when, and only when, its files phase ran and every
\* write of the batch completed; a call whose files phase is skipped never
\* raises that error.
C5_MissingRootDirFailsAtCopyStep ==
  \A i \in CallIds :
    LET c == calls[i]
    IN (c.opts.copyIcoToRoot /\ ~Truthy(c.opts.rootDir)) =>
         /\ Of(c, "copyFile") = {}
         /\ Of(c, "onIcoCopied") = {}
         /\ c.pc # "copy"
         /\ ~c.filesDone
         /\ c.error = "rootDir required" =>
              /\ ~c.outputDirExists
              /\ \A n \in FileNames : c.tasks[n] = "done"
         /\ (Settled(c) /\ \A n \in FileNames : c.tasks[n] = "done") =>
              c.error = "rootDir required"
         /\ (Settled(c) /\ c.outputDirExists) =>
              /\ c.error \in {"", "hook onHtmlWritten"}
              /\ ~FilesPhaseTouched(c)

\* C5 witness: one call failed with 'rootDir is required' after its writes, and
\* the next call with the same request skipped the files phase and resolved
C5_Witness ==
  /\ Len(calls) = 2
  /\ req.copyIcoToRoot /\ ~Truthy(req.rootDir)
  /\ calls[1].error = "rootDir required"
  /\ calls[2].outputDirExists
  /\ calls[2].status = "resolved"

\* C6 (as claimed): when 'rootDir is required' is raised, the call has created
\* no directory and written no file.
C6_NoIoBeforeRootDirError ==
  \A i \in CallIds :
    LET c == calls[i]
    IN c.error = "rootDir required" =>
         /\ Of(c, "mkdir") = {}
         /\ Of(c, "writeFile") = {}
         /\ Of(c, "copyFile") = {}

\* C6 (amended): when 'rootDir is required' is raised, the call has created
\* outputDir and written every file of the file set; it has attempted no copy,
\* generated no markup and written no HTML, and it does nothing afterwards.
C6_RootDirErrorAfterWrites ==
  \A i \in CallIds :
    LET c == calls[i]
    IN c.error = "rootDir required" =>
         /\ Cardinality(At(c, "mkdir", c.opts.outputDir)) = 1
         /\ FsKey(c.opts.outputDir) \in dirs
         /\ \A n \in FileNames :
              /\ Cardinality(At(c, "writeFile", Target(c, n))) = 1
              /\ HasFile(files, FsKey(Target(c, n)), Generated(c, n))
         /\ Of(c, "copyFile") = {}
         /\ Of(c, "generateFaviconHtml") = {}
         /\ At(c, "writeFile", c.opts.htmlOutput) = {}
         /\ c.settledAt = Len(c.trace)

\* C6 witness: 'rootDir is required' was raised in a call that had fired
\* onFileWritten for every file
C6_Witness ==
  \E i \in CallIds :
    /\ calls[i].error = "rootDir required"
    /\ calls[i].opts.rootDir = Undefined
    /\ Cardinality(Of(calls[i], "onFileWritten")) = Cardinality(FileNames)

HookError(h) ==
  CASE h = "onStart" -> "hook onStart"
    [] h = "onSkipFiles" -> "hook onSkipFiles"
    [] h = "onFileWritten" -> "hook onFileWritten"
    [] h = "onIcoCopied" -> "hook onIcoCopied"
    [] h = "onHtmlWritten" -> "hook onHtmlWritten"

\* hook h has thrown in call c
Threw(c, h) == Throws(c, h) /\ Of(c, h) # {}

\* C7 (as claimed): a hook that throws does not affect generation: no call is
\* rejected with a hook's exception, and a throwing onSkipFiles leaves the
\* files phase skipped.
C7_HooksBestEffort ==
  \A i \in CallIds :
    LET c == calls[i]
    IN /\ \A h \in HookNames : c.error # HookError(h)
       /\ Threw(c, "onSkipFiles") => ~FilesPhaseTouched(c)

\* the first position of the trace of c at which hook h was called
FirstOf(c, h) == CHOOSE j \in Of(c, h) : \A k \in Of(c, h) : j <= k

\* the call was rejected with the error of hook h at the first call of h that
\* threw (or, for onFileWritten, had been rejected before by a failed write of
\* the same batch), and after that ran nothing but the other writes of the batch
AbortedAt(c, h) ==
  /\ c.status = "rejected"
  /\ \/ c.error = HookError(h) /\ c.settledAt = FirstOf(c, h)
     \/ h = "onFileWritten" /\ c.error = "write failed" /\ c.settledAt < FirstOf(c, h)
  /\ \A j \in (FirstOf(c, h) + 1)..Len(c.trace) :
       /\ h = "onFileWritten"
       /\ \E n \in FileNames : c.trace[j] \in {Ev("writeFile", Target(c, n)),
                                                Ev("onFileWritten", Target(c, n))}

C9_SecondCallWritesNoFaviconFile ==
  (Len(calls) = 2 /\ req.skipIfExists \in {"true", "undefined"} /\ Truthy(req.source) /\ Truthy(req.outputDir)) =>
    /\ \A n \in FileNames : At(calls[2], "writeFile", Target(calls[2], n)) = {}
    /\ (calls[2].status = "resolved" /\ Truthy(req.htmlOutput)) =>
         At(calls[2], "writeFile", req.htmlOutput) # {}

\* the absolute resolution of an optional path against the base directory
Absolute(p) == IF p = Undefined THEN Undefined ELSE Resolve(cwd, p)

\* C10 (as claimed): an adapter call is the call of generateFavicons with
\* source, outputDir, rootDir (if present) and htmlOutput (if present) replaced
\* by their absolute resolutions and everything else unchanged, an empty rootDir
\* or htmlOutput and a missing source or outputDir included.
C10_AdapterOnlyResolvesPaths ==
  \A i \in CallIds :
    LET c == calls[i]
    IN c.via \in {"node", "vite"} =>
         /\ c.error # "TypeError"
         /\ c.opts = [source |-> Absolute(req.source),
                      outputDir |-> Absolute(req.outputDir),
                      htmlOutput |-> Absolute(req.htmlOutput),
                      skipIfExists |-> req.skipIfExists,
                      copyIcoToRoot |-> req.copyIcoToRoot,
                      rootDir |-> Absolute(req.rootDir),
                      hooks |-> req.hooks,
                      path |-> req.path]

\* the absolute resolution of an optional path, an empty one counting as absent
AbsoluteIfSet(p) == IF p = Undefined \/ p = <<>> THEN Undefined ELSE Resolve(cwd, p)

\* the path arguments of the effects of call c are absolute
AbsoluteEffects(c) ==
  \A j \in 1..Len(c.trace) :
    c.trace[j].k \in {"access", "access ENOENT", "mkdir", "loadAndConvertToSvg", "writeFile",
                      "copyFile", "onSkipFiles", "onFileWritten", "onIcoCopied",
                      "onHtmlWritten"}
      => IsAbsolute(c.trace[j].a)

\* C10 (amended): when source and outputDir are strings, an adapter call is the
\* call of generateFavicons with source and outputDir replaced by their absolute
\* resolutions (the empty string resolving to the base directory), rootDir and
\* htmlOutput replaced by their resolutions when non-empty and by undefined
\* when empty or absent, and every other option and the hooks unchanged; when
\* source or outputDir is missing (undefined), the adapter fails in
\* path.resolve with a TypeError before generateFavicons is called: no hook
\* fires and nothing touches the filesystem.
C10_AdapterResolvesNonEmptyPaths ==
  \A i \in CallIds :
    LET c == calls[i]
    IN c.via \in {"node", "vite"} =>
         IF req.source = Undefined \/ req.outputDir = Undefined
           THEN /\ c.status = "rejected"
                /\ c.error = "TypeError"
                /\ c.trace = <<>>
                /\ \A n \in FileNames : c.tasks[n] = "none"
           ELSE /\ c.error # "TypeError"
                /\ c.opts = [source |-> Resolve(cwd, req.source),
                             outputDir |-> Resolve(cwd, req.outputDir),
                             htmlOutput |-> AbsoluteIfSet(req.htmlOutput),
                             skipIfExists |-> req.skipIfExists,
                             copyIcoToRoot |-> req.copyIcoToRoot,
                             rootDir |-> AbsoluteIfSet(req.rootDir),
                             hooks |-> req.hooks,
                             path |-> req.path]
                /\ AbsoluteEffects(c)

\* C10 witness: generateFaviconsNode was called with copyIcoToRoot and an empty
\* rootDir, and the call failed with 'rootDir is required' after its writes
C10_Witness ==
  \E i \in CallIds :
    /\ calls[i].via = "node"
    /\ req.rootDir = <<>>
    /\ Truthy(req.htmlOutput)
    /\ calls[i].error = "rootDir required"
    /\ calls[i].opts.outputDir = <<"/", "cwd", "out">>

\* the step of the pipeline of call c that event e belongs to
StepOf(c, e) ==
  CASE e.k = "onStart" -> 1
    [] e.k \in {"access", "access ENOENT", "onSkipFiles"} -> 2
    [] e.k = "mkdir" /\ e.a = c.opts.outputDir -> 3
    [] e.k = "loadAndConvertToSvg" -> 4
    [] e.k \in {"getNodeImageAdapter", "generateFaviconFiles"} -> 5
    [] e.k = "onFileWritten" -> 6
    [] e.k = "writeFile" /\ (\E n \in FileNames : e.a = Target(c, n)) -> 6
    [] e.k \in {"copyFile", "onIcoCopied"} -> 7
    [] e.k = "generateFaviconHtml" -> 8
    [] OTHER -> 9

\* event e can be the first of the trace of call c, which does not skip the files phase
CanBeFirst(c, e) ==
  StepOf(c, e) = IF Present(c, "onStart") THEN 1
                 ELSE IF c.opts.skipIfExists \in {"true", "undefined"} THEN 2 ELSE 3

\* event e2 can directly follow event e1 in the trace of call c, which does not
\* skip the files phase: no step is repeated, passed over or taken out of order
CanFollow(c, e1, e2) ==
  LET a == StepOf(c, e1)
      b == StepOf(c, e2)
  IN /\ a <= b
     /\ a = b => a \in {2, 5, 6, 7, 9}
     /\ b = 2 => a = 1 \/ e2.k = "onSkipFiles"
     /\ b = 3 => a = IF c.opts.skipIfExists \in {"true", "undefined"} THEN 2 ELSE 1
     /\ b = 4 => a = 3
     /\ b = 5 => a = 4 \/ e1.k = "getNodeImageAdapter"
     /\ b = 6 => a = 6 \/ e1.k = "generateFaviconFiles"
     /\ b = 7 => a = 6 \/ e1.k = "copyFile"
     /\ b = 8 => a \in {6, 7}
     /\ b = 9 => a \in {8, 9}
     /\ e2.k = "onFileWritten" => e1 = Ev("writeFile", e2.a)
     /\ (a = 6 /\ e1.k = "writeFile" /\ Present(c, "onFileWritten")) =>
          e2 = Ev("onFileWritten", e1.a)

\* the write of file n by call c has completed and its onFileWritten has fired
WrittenAndNotified(c, n) ==
  /\ At(c, "writeFile", Target(c, n)) # {}
  /\ Present(c, "onFileWritten") => At(c, "onFileWritten", Target(c, n)) # {}

\* C11: in a call that does not skip the files phase the steps occur in the
\* order onStart, probe of outputDir, creation of outputDir, normalization,
\* generation, writes, copy, HTML generation, HTML write, none starting before
\* the steps it follows have happened; there is at most one write and one
\* onFileWritten per entry of the file set, onFileWritten is called with
\* outputDir joined with the file name and only once that file's own write
\* has completed, and neither the copy nor the HTML phase starts before every
\* write of the batch has completed and its onFileWritten has fired.
C11_StepsInOrderWritesBeforeCopyAndHtml ==
  \A i \in CallIds :
    LET c == calls[i]
        last == Len(c.trace)
    IN (~c.outputDirExists /\ last > 0) =>
         /\ CanBeFirst(c, c.trace[1])
         /\ \A j \in 1..(last - 1) : CanFollow(c, c.trace[j], c.trace[j + 1])
         /\ \A k \in {"writeFile", "onFileWritten"} :
              \A j1, j2 \in Of(c, k) : c.trace[j1].a = c.trace[j2].a => j1 = j2
         /\ \A n \in FileNames : c.tasks[n] = "done" => WrittenAndNotified(c, n)
         /\ (\/ c.pc \in {"copy", "htmlMkdir", "htmlWrite"}
             \/ c.filesDone
             \/ c.status = "resolved"
             \/ StepOf(c, c.trace[last]) >= 7) =>
              \A n \in FileNames : WrittenAndNotified(c, n)

\* C11 witness: a call ran every step, the copy and the HTML write included,
\* with every hook installed, and resolved
C11_Witness ==
  \E i \in CallIds :
    LET c == calls[i]
    IN /\ c.status = "resolved"
       /\ ~c.outputDirExists
       /\ Of(c, "onStart") # {}
       /\ Of(c, "access ENOENT") # {}
       /\ \A n \in FileNames : At(c, "onFileWritten", Target(c, n)) # {}
       /\ Of(c, "onIcoCopied") # {}
       /\ Of(c, "onHtmlWritten") # {}

\* fs.writeFile of file n rejected in call c
WriteFailed(c, n) == c.tasks[n] = "failed" /\ At(c, "writeFile", Target(c, n)) = {}

\* call c went no further than its write batch
StoppedAtWrites(c) ==
  /\ Of(c, "copyFile") = {}
  /\ Of(c, "onIcoCopied") = {}
  /\ Of(c, "generateFaviconHtml") = {}
  /\ Of(c, "onHtmlWritten") = {}
  /\ \A j \in Of(c, "writeFile") : \E m \in FileNames : c.trace[j].a = Target(c, m)
  /\ ~c.filesDone

\* C12: when the write of one file of the batch fails, the call is rejected
\* with the I/O error of the write, whatever happened to the other writes;
\* the call performs no copy and no HTML generation or write and fires neither
\* onIcoCopied nor onHtmlWritten; the files the other writes completed are on
\* disk; and the failed write is not issued again.
C12_FailedWriteRejectsWithIoError ==
  \A i \in CallIds :
    LET c == calls[i]
    IN \A n \in FileNames :
         WriteFailed(c, n) =>
           /\ c.status = "rejected"
           /\ c.error = "write failed"
           /\ StoppedAtWrites(c)
           /\ \A m \in FileNames :
                At(c, "writeFile", Target(c, m)) # {} =>
                  HasFile(files, FsKey(Target(c, m)), Generated(c, m))
           /\ \A m \in FileNames : Cardinality(At(c, "writeFile", Target(c, m))) <= 1

\* the kinds of events that change the filesystem
FsEffects == {"mkdir", "writeFile", "copyFile"}

\* C13: a call whose source normalization or file-set generation fails is
\* rejected with that failure and does nothing more: it starts no write of a
\* favicon file, fires none of onFileWritten, onIcoCopied and onHtmlWritten,
\* performs no copy and no HTML generation or write, and its only effect on the
\* filesystem is the one creation of outputDir, which exists.
C13_NormalizeOrGenerateFailureAborts ==
  \A i \in CallIds :
    LET c == calls[i]
    IN c.error \in {"could not load source image", "file generation failed"} =>
         /\ c.status = "rejected"
         /\ c.settledAt = Len(c.trace)
         /\ \A n \in FileNames : c.tasks[n] = "none"
         /\ \A h \in {"onFileWritten", "onIcoCopied", "onHtmlWritten"} : Of(c, h) = {}
         /\ Of(c, "generateFaviconHtml") = {}
         /\ \A j \in 1..Len(c.trace) :
              c.trace[j].k \in FsEffects => c.trace[j] = Ev("mkdir", c.opts.outputDir)
         /\ Cardinality(At(c, "mkdir", c.opts.outputDir)) = 1
         /\ Exists(FsKey(c.opts.outputDir))
         /\ (c.error = "file generation failed") = (Of(c, "loadAndConvertToSvg") # {})

\* C13 witness: file-set generation failed in a call that had found no
\* outputDir and created it, and that was asked for the copy and the markup
C13_Witness ==
  \E i \in CallIds :
    LET c == calls[i]
    IN /\ c.error = "file generation failed"
       /\ Of(c, "access ENOENT") # {}
       /\ At(c, "mkdir", c.opts.outputDir) # {}
       /\ c.opts.copyIcoToRoot
       /\ Truthy(c.opts.htmlOutput)
       /\ Present(c, "onFileWritten")

(* ------------------------ concurrent invocations ----------------------- *)

MaxConcurrentCalls == 2

\* complete requests on one outputDir, with skipIfExists on
ConcurrentOptions ==
  {o \in Options : /\ o.source = <<"logo.png">>
                   /\ o.outputDir = <<"out">>
                   /\ o.htmlOutput \in {Undefined, <<"gen", "favicons.html">>}
                   /\ o.skipIfExists \in {"undefined", "true"}
                   /\ o.rootDir = <<"public">>
                   /\ o.hooks \in {NoHooks, OkHooks}}

InitConcurrent ==
  /\ req \in ConcurrentOptions
  /\ calls = <<>>
  /\ dirs = {cwd, FsKey(<<"public">>)}
  /\ files = {}

\* the caller invokes generateFavicons(req) without awaiting the calls it made before
GenerateFaviconsConcurrently ==
  /\ Len(calls) < MaxConcurrentCalls
  /\ calls' = Append(calls, Start(NewCall("core", req)))
  /\ UNCHANGED <<req, dirs, files>>

NextConcurrent ==
  \/ GenerateFaviconsConcurrently
  \/ \E i \in 1..Len(calls) : Access(i)
  \/ \E i \in 1..Len(calls) : Mkdir(i)
  \/ \E i \in 1..Len(calls) : LoadIcon(i)
  \/ \E i \in 1..Len(calls) : LoadIconFails(i)
  \/ \E i \in 1..Len(calls) : ImageAdapter(i)
  \/ \E i \in 1..Len(calls) : Generate(i)
  \/ \E i \in 1..Len(calls) : GenerateFails(i)
  \/ \E i \in 1..Len(calls), n \in FileNames : Convert(i, n)
  \/ \E i \in 1..Len(calls), n \in FileNames : WriteFile(i, n)
  \/ \E i \in 1..Len(calls), n \in FileNames : WriteFileFails(i, n)
  \/ \E i \in 1..Len(calls) : WritesDone(i)
  \/ \E i \in 1..Len(calls) : CopyFile(i)
  \/ \E i \in 1..Len(calls) : CopyFileFails(i)
  \/ \E i \in 1..Len(calls) : HtmlMkdir(i)
  \/ \E i \in 1..Len(calls) : HtmlWrite(i)

SpecConcurrent == InitConcurrent /\ [][NextConcurrent]_vars

\* outputDir of call c holds a file named n
OnDisk(c, n) == \E f \in files : f.p = FsKey(Target(c, n))

\* C14 (as claimed): whenever a call with skipIfExists on has resolved,
\* outputDir holds every file of the file set, whatever earlier invocations
\* did on the same outputDir, failed ones and ones still running included.
C14_ResolvedCallLeavesCompleteOutputDir ==
  \A i \in CallIds :
    LET c == calls[i]
    IN (c.opts.skipIfExists \in {"true", "undefined"} /\ c.status = "resolved") =>
         \A n \in FileNames : OnDisk(c, n)

\* C14 (amended): whenever a call with skipIfExists on has resolved, outputDir
\* exists; a call that ran the files phase has written every file of the file
\* set itself and outputDir holds them all as generated; a call that skipped
\* the files phase found outputDir present and has written no favicon file, so
\* that what outputDir holds is whatever was put there by others so far.
C14_ResolvedCallLeavesOnlyItsOwnWrites ==
  \A i \in CallIds :
    LET c == calls[i]
    IN (c.opts.skipIfExists \in {"true", "undefined"} /\ c.status = "resolved") =>
         /\ Exists(FsKey(c.opts.outputDir))
         /\ IF FilesPhaseTouched(c)
              THEN \A n \in FileNames :
                     /\ At(c, "writeFile", Target(c, n)) # {}
                     /\ HasFile(files, FsKey(Target(c, n)), Generated(c, n))
              ELSE /\ c.outputDirExists
                   /\ At(c, "access", c.opts.outputDir) # {}
                   /\ \A n \in FileNames : c.tasks[n] = "none"

\* C14 witness: a call resolved after skipping the files phase while the call
\* that had created outputDir was still writing, with a file of the set missing
C14_Witness ==
  /\ Len(calls) = 2
  /\ calls[1].status = "pending"
  /\ calls[1].pc = "writes"
  /\ calls[2].opts.skipIfExists = "true"
  /\ calls[2].status = "resolved"
  /\ calls[2].outputDirExists
  /\ \E n \in FileNames : ~OnDisk(calls[2], n)

\* the positions of the events call c logged after its promise had settled
AfterSettlement(c) == {j \in 1..Len(c.trace) : Settled(c) /\ j > c.settledAt}

\* C15 (as claimed): once the promise of a call has settled, no hook fires and
\* no favicon file is written on its behalf; after a rejection by a failed
\* write, onFileWritten is invoked for no other file of the batch.
C15_NothingAfterSettlement ==
  \A i \in CallIds :
    LET c == calls[i]
    IN \A j \in AfterSettlement(c) :
         /\ c.trace[j].k \notin HookNames
         /\ c.trace[j].k # "writeFile"

\* C15 (amended): once a call has resolved, nothing more happens on its
\* behalf.  Once a call has been rejected, the only things done on its behalf
\* are the writes of its batch that were in flight at the rejection, which came
\* from within the batch: each may complete, once, on disk as generated, and
\* then fires onFileWritten with its own target path; no other hook fires and
\* no other file is written.
C15_OnlyInFlightWritesAfterRejection ==
  \A i \in CallIds :
    LET c == calls[i]
    IN /\ c.status = "resolved" =>
            /\ AfterSettlement(c) = {}
            /\ \A n \in FileNames : c.tasks[n] \in {"none", "done"}
       /\ c.status = "rejected" =>
            /\ \A n \in FileNames :
                 c.tasks[n] \in {"convert", "writing"} =>
                   c.error \in {"write failed", "hook onFileWritten"}
            /\ \A j \in AfterSettlement(c) :
                 /\ c.error \in {"write failed", "hook onFileWritten"}
                 /\ \E n \in FileNames :
                      /\ c.trace[j].a = Target(c, n)
                      /\ Cardinality(At(c, "writeFile", Target(c, n))) = 1
                      /\ \/ c.trace[j].k = "writeFile"
                         \/ /\ c.trace[j].k = "onFileWritten"
                            /\ c.trace[j - 1] = Ev("writeFile", Target(c, n))

\* C15 witness: a call was rejected by a failed write, and afterwards another
\* write of its batch completed and onFileWritten fired for that file
C15_Witness ==
  \E i \in CallIds :
    LET c == calls[i]
    IN /\ c.status = "rejected"
       /\ c.error = "write failed"
       /\ \E j \in AfterSettlement(c), n \in FileNames :
            /\ c.trace[j] = Ev("onFileWritten", Target(c, n))
            /\ HasFile(files, FsKey(Target(c, n)), Generated(c, n))

====
